---- MODULE Spec2Model ----
(***************************************************************************)
(* A model of food_allery_analysis.py: the reference data the program      *)
(* loads, the FeedbackSystem (two persisted JSON documents), the wizard of *)
(* FoodAllergyApp that builds the diary, the analysis it runs on the diary *)
(* and the module-level analysis functions.                                *)
(*                                                                         *)
(* Python values are modelled as follows.                                  *)
(*   list            a sequence                                            *)
(*   dict            an ordered dict: a sequence of records [key, val],    *)
(*                   keys distinct, in insertion order (Python 3.7+)       *)
(*   set             a set                                                 *)
(*   a file          [exists |-> BOOLEAN, data |-> the JSON document]      *)
(***************************************************************************)
EXTENDS Integers, Sequences, FiniteSets, TLC

VARIABLES
    feedback_file,           \* feedback.json
    model_adjustments_file,  \* model_adjustments.json
    fs,                      \* "none" | "ready": a FeedbackSystem object exists
    last_call,               \* the latest direct call of a FeedbackSystem method
    foods_dict,              \* food -> allergens, as loaded from the food table
    allergies_dict,          \* allergen -> related issues (the module global)
    all_issues,              \* sorted list of every related issue
    screen,                  \* the frame the window shows ("off": no process)
    day,
    meal_idx,
    daily_data,
    current_day_entry,
    user_issues,
    selected_food,
    analysis_results,
    summary,                 \* locals of the analysis and the lines it displays
    prediction               \* result of the classifier-mode prediction

vars == << feedback_file, model_adjustments_file, fs, last_call, foods_dict,
           allergies_dict, all_issues, screen, day, meal_idx, daily_data,
           current_day_entry, user_issues, selected_food, analysis_results,
           summary, prediction >>

storeVars == << feedback_file, model_adjustments_file >>

appVars == << foods_dict, allergies_dict, all_issues, screen, day, meal_idx,
              daily_data, current_day_entry, user_issues, selected_food,
              analysis_results, summary, prediction >>

(***************************************************************************)
(* Generic helpers for lists, sets and ordered dicts.                      *)
(***************************************************************************)
Range(s) == { s[i] : i \in 1..Len(s) }

RECURSIVE ConcatAll(_)
ConcatAll(ss) == IF ss = <<>> THEN <<>> ELSE Head(ss) \o ConcatAll(Tail(ss))

Max2(a, b) == IF a >= b THEN a ELSE b

Min2(a, b) == IF a <= b THEN a ELSE b

\* every list whose elements are exactly the elements of S, each once
Orderings(S) ==
    { s \in [1..Cardinality(S) -> S] : Range(s) = S }

\* every list over S of length at most n
SeqsUpTo(S, n) == UNION { [1..k -> S] : k \in 0..n }

Keys(d) == [ i \in 1..Len(d) |-> d[i].key ]

KeySet(d) == { d[i].key : i \in 1..Len(d) }

Values(d) == [ i \in 1..Len(d) |-> d[i].val ]

HasKey(d, k) == \E i \in 1..Len(d) : d[i].key = k

\* d.get(k, default)
DictGet(d, k, default) ==
    IF HasKey(d, k)
    THEN d[CHOOSE i \in 1..Len(d) : d[i].key = k].val
    ELSE default

\* d[k] = v: an existing key keeps its place, a new key goes last
DictSet(d, k, v) ==
    IF HasKey(d, k)
    THEN [ i \in 1..Len(d) |-> IF d[i].key = k THEN [key |-> k, val |-> v] ELSE d[i] ]
    ELSE Append(d, [key |-> k, val |-> v])

(***************************************************************************)
(* Strings.  TLA+ strings are atoms, so the conversions the program        *)
(* applies are tabulated on the names the model uses.                      *)
(***************************************************************************)
\* str.lower()
LowerStr(s) ==
    CASE s = "Dairy"    -> "dairy"
      [] s = "Gluten"   -> "gluten"
      [] s = "Bloating" -> "bloating"
      [] s = "Rash"     -> "rash"
      [] OTHER          -> s

\* str.title(), on the lower-case single-word names of the reference data
TitleStr(s) ==
    CASE s = "dairy"    -> "Dairy"
      [] s = "gluten"   -> "Gluten"
      [] s = "bloating" -> "Bloating"
      [] s = "rash"     -> "Rash"
      [] OTHER          -> s

\* str.capitalize(), on the lower-case single-word issue names
CapitalizeStr(s) ==
    CASE s = "bloating" -> "Bloating"
      [] s = "rash"     -> "Rash"
      [] OTHER          -> s

\* the order sorted() gives the strings of the model (code-point order)
StrOrder ==
    << "Bloating", "Dairy", "Gluten", "Pizza", "Rash", "Salad", "Toast",
       "UnknownDish", "bloating", "dairy", "gluten", "rash" >>

\* sorted(S) for a set of strings
Sorted(S) == SelectSeq(StrOrder, LAMBDA x : x \in S)

(***************************************************************************)
(* FeedbackSystem                                                          *)
(***************************************************************************)
AbsentFile == [exists |-> FALSE, data |-> <<>>]

\* faulty variant: opens the file for writing whether or not it exists
BootstrapFile_Truncate(f, empty) == [exists |-> TRUE, data |-> empty]

\* __init__, for one of the two files: created with `empty` when absent
BootstrapFile(f, empty) ==
    IF ~f.exists THEN [exists |-> TRUE, data |-> empty] ELSE f

\* the record save_feedback builds
FeedbackEntry(ts, user_feedback, results) ==
    [timestamp |-> ts, feedback |-> user_feedback, results |-> results]

\* faulty variant: records the confirmation without counting repeats
improve_model_Idempotent(maf, user_feedback) ==
    LET confirmed == user_feedback.confirmed_ingredient IN
    IF confirmed = ""
    THEN maf
    ELSE [maf EXCEPT !.data = DictSet(@, confirmed, 1)]

\* model_adjustments.json after improve_model
improve_model(maf, user_feedback) ==
    LET confirmed == user_feedback.confirmed_ingredient IN
    IF confirmed = ""
    THEN maf
    ELSE [maf EXCEPT !.data = DictSet(@, confirmed, DictGet(@, confirmed, 0) + 1)]

\* faulty variant: writes the new entry alone
AppendEntry_Overwrite(ff, entry) == [ff EXCEPT !.data = << entry >>]

\* feedback.json after save_feedback
AppendEntry(ff, entry) == [ff EXCEPT !.data = Append(@, entry)]

\* both files after save_feedback
save_feedback(ff, maf, ts, user_feedback, results) ==
    << AppendEntry(ff, FeedbackEntry(ts, user_feedback, results)),
       improve_model(maf, user_feedback) >>

RecentWindow == 5

\* faulty variant: data[:n]
LastN_First(data, n) == SubSeq(data, 1, Min2(Len(data), n))

\* data[-n:]
LastN(data, n) == SubSeq(data, Max2(1, Len(data) - n + 1), Len(data))

get_feedback_stats(ff) ==
    [ total_feedback  |-> Len(ff.data),
      recent_feedback |-> IF Len(ff.data) > RecentWindow
                          THEN LastN(ff.data, RecentWindow)
                          ELSE ff.data ]

get_model_adjustments(maf) == maf.data

(***************************************************************************)
(* The analysis: FoodAllergyApp.analyze_and_show_results                   *)
(***************************************************************************)
\* faulty variant: counts the allergen's related issues, not the day's issues among them
IssueMatches_AllRelated(entry, allergy) ==
    Len(DictGet(allergies_dict, allergy, <<>>))

\* sum(1 for issue in entry['issues'] if issue in allergies_dict.get(allergy, []))
IssueMatches(entry, allergy) ==
    Cardinality({ i \in 1..Len(entry.issues) :
                    entry.issues[i] \in Range(DictGet(allergies_dict, allergy, <<>>)) })

\* the iterations of the innermost loop body, in execution order:
\* for entry in daily_data / for food in entry['foods'] / for allergy in allergies
FoodSteps(entry, food) ==
    LET allergies == DictGet(foods_dict, food, <<>>) IN
    [ k \in 1..Len(allergies) |->
        [allergy |-> allergies[k], inc |-> IssueMatches(entry, allergies[k]), food |-> food] ]

EntrySteps(entry) ==
    ConcatAll([ m \in 1..Len(entry.foods) |-> FoodSteps(entry, entry.foods[m]) ])

ScoringSteps(dd) == ConcatAll([ d \in 1..Len(dd) |-> EntrySteps(dd[d]) ])

\* faulty variant: assigns where the code adds
AddScore_Assign(map, k, n) == DictSet(map, k, n)

\* ingredient_issue_map[k] += n  (a defaultdict(int): a missing key starts at 0)
AddScore(map, k, n) == DictSet(map, k, DictGet(map, k, 0) + n)

RECURSIVE ApplySteps(_, _)
ApplySteps(map, steps) ==
    IF steps = <<>> THEN map
    ELSE ApplySteps(AddScore(map, Head(steps).allergy, Head(steps).inc), Tail(steps))

\* ingredient_issue_map after the diary loop
DiaryScores(dd) == ApplySteps(<<>>, ScoringSteps(dd))

\* faulty variant: records every food of the diary under every allergen met
DiaryFoodMap_AnyFood(dd) ==
    LET steps == ScoringSteps(dd) IN
    [ a \in { steps[i].allergy : i \in 1..Len(steps) } |->
        UNION { Range(dd[d].foods) : d \in 1..Len(dd) } ]

\* ingredient_food_map after the diary loop (a defaultdict(set))
DiaryFoodMap(dd) ==
    LET steps == ScoringSteps(dd) IN
    [ a \in { steps[i].allergy : i \in 1..Len(steps) } |->
        { steps[i].food : i \in { j \in 1..Len(steps) : steps[j].allergy = a } } ]

\* ingredient_food_map[ing]: a missing key reads as the empty set
FoodsOf(food_map, ing) == IF ing \in DOMAIN food_map THEN food_map[ing] ELSE {}

\* for ing, count in adjustments.items(): ingredient_issue_map[ing] += count
RECURSIVE ApplyAdjustments(_, _)
ApplyAdjustments(map, adjustments) ==
    IF adjustments = <<>> THEN map
    ELSE ApplyAdjustments(AddScore(map, Head(adjustments).key, Head(adjustments).val),
                          Tail(adjustments))

AdjustedScores(dd, adjustments) == ApplyAdjustments(DiaryScores(dd), adjustments)

\* max(ingredient_issue_map.values(), default=0)
RECURSIVE MaxOf(_)
MaxOf(s) == IF s = <<>> THEN 0
            ELSE IF Len(s) = 1 THEN Head(s)
            ELSE Max2(Head(s), MaxOf(Tail(s)))

MaxScore(map) == MaxOf(Values(map))

\* faulty variant: breaks ties, keeping the first maximal ingredient only
ProbableIngredients_First(map) ==
    LET all == Keys(SelectSeq(map, LAMBDA e : e.val = MaxScore(map) /\ e.val > 0)) IN
    IF all = <<>> THEN <<>> ELSE << Head(all) >>

\* [ing for ing, score in map.items() if score == max_score and score > 0]
ProbableIngredients(map) ==
    Keys(SelectSeq(map, LAMBDA e : e.val = MaxScore(map) /\ e.val > 0))

CulpritFoods(probable, food_map) ==
    UNION { FoodsOf(food_map, probable[i]) : i \in 1..Len(probable) }

\* [food for food, ings in foods_dict.items()
\*        if not set(probable_ingredients).intersection(ings)]
AlternativeFoods(probable) ==
    Keys(SelectSeq(foods_dict, LAMBDA e : Range(probable) \cap Range(e.val) = {}))

DisplayLimit == 10

\* faulty variant: no limit
FirstN_All(s, n) == s

\* alternative_foods[:10]
FirstN(s, n) == SubSeq(s, 1, Min2(Len(s), n))

\* the locals of one run of the analysis and the alternatives it displays
AnalysisSummary(dd, adjustments) ==
    LET map      == AdjustedScores(dd, adjustments)
        probable == ProbableIngredients(map)
        food_map == DiaryFoodMap(dd)
        alts     == IF probable # <<>> THEN AlternativeFoods(probable) ELSE <<>>
    IN  [ ingredient_issue_map |-> map,
          max_score            |-> MaxScore(map),
          probable_ingredients |-> probable,
          ingredient_food_map  |-> food_map,
          culprit_foods        |-> CulpritFoods(probable, food_map),
          alternative_foods    |-> alts,
          shown_alternatives   |-> FirstN(alts, DisplayLimit),
          no_clear_culprit     |-> probable = <<>> ]

\* self.analysis_results; `culprit_list` is list(culprit_foods), whose order the
\* set's iteration decides
AnalysisResults(sm, culprit_list) ==
    [ ingredient_issue_map |-> sm.ingredient_issue_map,
      probable_ingredients |-> sm.probable_ingredients,
      culprit_foods        |-> culprit_list ]

\* all_ingredients of the feedback tab: sorted allergens of the diary's foods
AllIngredients(dd) ==
    Sorted(UNION { UNION { Range(DictGet(foods_dict, dd[d].foods[m], <<>>)) :
                           m \in 1..Len(dd[d].foods) } : d \in 1..Len(dd) })

NoResults == [ingredient_issue_map |-> <<>>, probable_ingredients |-> <<>>,
              culprit_foods |-> <<>>]

NoSummary == [none |-> TRUE]

NoPrediction == [path |-> "none", food |-> "None"]

NoCall == [op |-> "none"]

(***************************************************************************)
(* Module-level analysis functions                                         *)
(***************************************************************************)
\* map_foods_to_allergies: every entry gains 'allergies'
map_foods_to_allergies(dd) ==
    [ d \in 1..Len(dd) |->
        [ foods     |-> dd[d].foods,
          issues    |-> dd[d].issues,
          allergies |-> ConcatAll([ m \in 1..Len(dd[d].foods) |->
                                      DictGet(foods_dict, dd[d].foods[m], <<>>) ]) ] ]

\* faulty variant: counter[k] = 1
RECURSIVE CountInto_Assign(_, _)
CountInto_Assign(counter, items) ==
    IF items = <<>> THEN counter
    ELSE CountInto_Assign(DictSet(counter, Head(items), 1), Tail(items))

\* counter[k] += 1 for every k of the list, a Counter keeping first-seen order
RECURSIVE CountInto(_, _)
CountInto(counter, items) ==
    IF items = <<>> THEN counter
    ELSE CountInto(DictSet(counter, Head(items), DictGet(counter, Head(items), 0) + 1),
                   Tail(items))

\* food_counter of analyze_patterns
FoodCounter(dd) == CountInto(<<>>, ConcatAll([ d \in 1..Len(dd) |-> dd[d].foods ]))

\* analyze_patterns, on entries that carry 'allergies'
analyze_patterns(dd) ==
    [ food_counter    |-> FoodCounter(dd),
      allergy_counter |-> CountInto(<<>>, ConcatAll([ d \in 1..Len(dd) |-> dd[d].allergies ])),
      issue_counter   |-> CountInto(<<>>, ConcatAll([ d \in 1..Len(dd) |-> dd[d].issues ])),
      food_issue_map  |-> [ f \in UNION { Range(dd[d].foods) : d \in 1..Len(dd) } |->
                              ConcatAll([ d \in 1..Len(dd) |->
                                 ConcatAll([ m \in 1..Len(dd[d].foods) |->
                                    IF dd[d].foods[m] = f THEN dd[d].issues ELSE <<>> ]) ]) ] ]

\* the first key holding the largest count, "None" for an empty counter
MostCommon(counter) ==
    IF counter = <<>> THEN "None"
    ELSE counter[CHOOSE i \in 1..Len(counter) :
                    /\ \A j \in 1..Len(counter) : counter[j].val <= counter[i].val
                    /\ \A j \in 1..(i - 1) : counter[j].val < counter[i].val].key

MinTrainingPairs == 2

\* the classifier mode's choice of path
PredictPath(trainingPairs) ==
    IF Len(trainingPairs) < MinTrainingPairs THEN "fallback" ELSE "classifier"

\* the foods predict may return: the fallback's food, or a label the classifier
\* was trained on
PredictOutcomes(trainingPairs, food_counter) ==
    IF PredictPath(trainingPairs) = "fallback"
    THEN { MostCommon(food_counter) }
    ELSE { trainingPairs[i].label : i \in 1..Len(trainingPairs) }

(***************************************************************************)
(* Reference data: load_foods_allergies, load_allergies_diseases           *)
(***************************************************************************)
\* str.strip(), on the raw cells of the tables of the model
StripStr(s) ==
    CASE s = " gluten" -> "gluten"
      [] s = " Gluten" -> "Gluten"
      [] s = " rash"   -> "rash"
      [] s = " "       -> ""
      [] OTHER         -> s

\* [a.strip().lower() for a in cell.split(',') if a.strip()], the cell given
\* as the list of its split parts
CleanList(parts) ==
    LET kept == SelectSeq(parts, LAMBDA a : StripStr(a) # "") IN
    [ i \in 1..Len(kept) |-> LowerStr(StripStr(kept[i])) ]

\* load_foods_allergies: rows [dish_name, allergens]; a later row of the same
\* dish replaces the earlier one
RECURSIVE load_foods_allergies(_)
load_foods_allergies(rows) ==
    IF rows = <<>> THEN <<>>
    ELSE LET n == Len(rows) IN
         DictSet(load_foods_allergies(SubSeq(rows, 1, n - 1)),
                 StripStr(rows[n].dish_name), CleanList(rows[n].allergens))

\* load_allergies_diseases, first result: rows [Allergy, issues]
RECURSIVE load_allergies_diseases(_)
load_allergies_diseases(rows) ==
    IF rows = <<>> THEN <<>>
    ELSE LET n == Len(rows) IN
         DictSet(load_allergies_diseases(SubSeq(rows, 1, n - 1)),
                 LowerStr(StripStr(rows[n].Allergy)), CleanList(rows[n].issues))

\* load_allergies_diseases, second result: sorted(all_issues)
LoadedIssues(allergies) ==
    Sorted(UNION { Range(allergies[i].val) : i \in 1..Len(allergies) })

Row(dish, allergens) == [dish_name |-> dish, allergens |-> allergens]

ARow(allergy, issues) == [Allergy |-> allergy, issues |-> issues]

\* the tables the wizard runs are checked with: the one allergen a dish
\* carries has no row in the allergy table
AppFoodTable == << Row("Pizza", <<" Gluten">>), Row("Salad", <<" ">>) >>

AppAllergyTable == << ARow("Dairy", <<"Bloating">>) >>

\* the tables the analysis is checked with: one dish lists an allergen twice
\* (in two spellings), and more than DisplayLimit dishes carry no allergen
EngineFoodTable ==
    << Row("Pizza", <<"dairy", " gluten">>), Row("Salad", <<>>),
       Row("Toast", <<"Gluten", " gluten">>), Row("Apple", <<>>),
       Row("Beans", <<>>), Row("Curry", <<"Dairy">>), Row("Dates", <<>>),
       Row("Eggs", <<>>), Row("Figs", <<>>), Row("Grapes", <<>>),
       Row("Hummus", <<>>), Row("Kebab", <<>>), Row("Lentils", <<>>),
       Row("Naan", <<"gluten">>), Row("Okra", <<>>) >>

EngineAllergyTable ==
    << ARow("Dairy", <<"Bloating">>), ARow("gluten", <<" rash">>) >>

(***************************************************************************)
(* Bounds and input sets                                                   *)
(***************************************************************************)
MaxFeedback == 2     \* feedback submissions in a run of the wizard
MaxLog == 6          \* records in the log when FeedbackSystem is driven directly
MaxDays == 2         \* days of a diary handed to the analysis
MaxMeals == 2        \* foods of one such day
MaxPairs == 2        \* training pairs handed to predict

Timestamps == { "t1" }

Ratings == { 3 }

Comments == { "" }

AdjCounts == { 1, 5 }

AdjKeys == { "dairy", "gluten" }

\* every string a combobox of the model can hold
ComboValues == { "", "Dairy", "Gluten" }

EngineMenu == { "Pizza", "Toast", "UnknownDish" }

\* the (user_feedback, analysis_results) arguments FeedbackSystem is driven
\* with directly
NoCulpritResults ==
    [ingredient_issue_map |-> <<>>, probable_ingredients |-> <<>>, culprit_foods |-> <<>>]

DairyResults ==
    [ingredient_issue_map |-> << [key |-> "dairy", val |-> 1] >>,
     probable_ingredients |-> << "dairy" >>, culprit_foods |-> << "Pizza" >>]

StoreCalls ==
    { << [rating |-> 3, comments |-> "", timestamp |-> "t1", confirmed_ingredient |-> ""],
         NoCulpritResults >>,
      << [rating |-> 5, comments |-> "ok", timestamp |-> "t1", confirmed_ingredient |-> "dairy"],
         DairyResults >>,
      << [rating |-> 2, comments |-> "", timestamp |-> "t1", confirmed_ingredient |-> "dairy"],
         NoCulpritResults >>,
      << [rating |-> 4, comments |-> "", timestamp |-> "t1", confirmed_ingredient |-> "gluten"],
         DairyResults >> }

\* stored adjustments: every ordered dict over a subset of AdjKeys
EngineAdjustments ==
    UNION { UNION { { [ i \in 1..Len(ks) |-> [key |-> ks[i], val |-> c[ks[i]]] ] :
                      c \in [K -> AdjCounts] } : ks \in Orderings(K) } :
            K \in SUBSET AdjKeys }

EngineEntries(issues) ==
    { [foods |-> f, issues |-> Sorted(I)] :
        f \in SeqsUpTo(EngineMenu, MaxMeals), I \in SUBSET Range(issues) }

EngineDiaries(issues) == SeqsUpTo(EngineEntries(issues), MaxDays)

PredictMenu == { "Pizza", "Toast" }

\* the diaries handed to the classifier mode: the wizard's, which records the
\* same issues on every day
PredictDiaries(issues) ==
    SeqsUpTo({ [foods |-> f, issues |-> issues] : f \in SeqsUpTo(PredictMenu, MaxMeals) },
             MaxDays)

TrainingPairs ==
    SeqsUpTo({ [text |-> "dairy", label |-> "Pizza"],
               [text |-> "gluten", label |-> "Toast"] }, MaxPairs)

EmptyEntry == [foods |-> <<>>, issues |-> <<>>]

(***************************************************************************)
(* The application: main, FoodAllergyApp.__init__ and the wizard handlers  *)
(***************************************************************************)
\* no process is running: nothing is held in memory
AppOff ==
    /\ foods_dict = <<>>
    /\ allergies_dict = <<>>
    /\ all_issues = <<>>
    /\ screen = "off"
    /\ day = 1
    /\ meal_idx = 0
    /\ daily_data = <<>>
    /\ current_day_entry = EmptyEntry
    /\ user_issues = <<>>
    /\ selected_food = ""
    /\ analysis_results = NoResults
    /\ summary = NoSummary
    /\ prediction = NoPrediction

Init ==
    /\ feedback_file = AbsentFile
    /\ model_adjustments_file = AbsentFile
    /\ fs = "none"
    /\ last_call = NoCall
    /\ AppOff

NumDays == 4

NumMeals == 3

\* FeedbackSystem.__init__
Construct ==
    /\ feedback_file' = BootstrapFile(feedback_file, <<>>)
    /\ model_adjustments_file' = BootstrapFile(model_adjustments_file, <<>>)
    /\ fs' = "ready"

\* main: load the tables, build the app (which builds its FeedbackSystem) and
\* show the welcome screen
Start ==
    /\ screen = "off"
    /\ foods_dict' = load_foods_allergies(AppFoodTable)
    /\ allergies_dict' = load_allergies_diseases(AppAllergyTable)
    /\ all_issues' = LoadedIssues(allergies_dict')
    /\ day' = 1
    /\ meal_idx' = 0
    /\ daily_data' = <<>>
    /\ current_day_entry' = EmptyEntry
    /\ selected_food' = ""
    /\ user_issues' = <<>>
    /\ Construct
    /\ screen' = "welcome"
    /\ UNCHANGED << last_call, analysis_results, summary, prediction >>

\* File > Exit, or the Exit button: the process ends, the files stay
Exit ==
    /\ screen # "off"
    /\ foods_dict' = <<>>
    /\ allergies_dict' = <<>>
    /\ all_issues' = <<>>
    /\ screen' = "off"
    /\ day' = 1
    /\ meal_idx' = 0
    /\ daily_data' = <<>>
    /\ current_day_entry' = EmptyEntry
    /\ user_issues' = <<>>
    /\ selected_food' = ""
    /\ analysis_results' = NoResults
    /\ summary' = NoSummary
    /\ prediction' = NoPrediction
    /\ fs' = "none"
    /\ UNCHANGED << storeVars, last_call >>

\* "Start Analysis"
ask_issues_first ==
    /\ screen = "welcome"
    /\ screen' = "issues"
    /\ UNCHANGED << storeVars, fs, last_call, foods_dict, allergies_dict, all_issues,
                    day, meal_idx, daily_data, current_day_entry, user_issues,
                    selected_food, analysis_results, summary, prediction >>

\* "View Feedback": reads the log into a window of its own
show_feedback_stats ==
    /\ screen = "welcome"
    /\ get_feedback_stats(feedback_file).total_feedback >= 0
    /\ UNCHANGED vars

\* the issues the listbox returns for the selected rows
SelectedIssues(sel) ==
    LET rows == SelectSeq([ i \in 1..Len(all_issues) |-> i ], LAMBDA i : i \in sel) IN
    [ k \in 1..Len(rows) |-> LowerStr(CapitalizeStr(all_issues[rows[k]])) ]

\* "Next" on the issue screen, with the rows `sel` selected
save_issues_and_start_meal(sel) ==
    /\ screen = "issues"
    /\ user_issues' = SelectedIssues(sel)
    /\ IF user_issues' = <<>>
       THEN UNCHANGED << screen, day, meal_idx, daily_data, current_day_entry >>
       ELSE /\ day' = 1
            /\ meal_idx' = 0
            /\ daily_data' = <<>>
            /\ current_day_entry' = EmptyEntry
            /\ screen' = "food"
    /\ UNCHANGED << storeVars, fs, last_call, foods_dict, allergies_dict, all_issues,
                    selected_food, analysis_results, summary, prediction >>

\* analyze_and_show_results on the diary dd
Analyze(dd) ==
    LET sm == AnalysisSummary(dd, get_model_adjustments(model_adjustments_file)) IN
    /\ summary' = sm
    /\ \E culprit_list \in Orderings(sm.culprit_foods) :
          analysis_results' = AnalysisResults(sm, culprit_list)
    /\ screen' = "results"

\* faulty variant: the day is closed without copying the tracked issues
FinishedDay_NoIssues(entry) ==
    Append(daily_data, [foods |-> entry.foods, issues |-> entry.issues])

\* the diary after finish_day
FinishedDay(entry) ==
    Append(daily_data, [foods |-> entry.foods, issues |-> user_issues])

\* "Next" on the food screen with `food` in the combobox ("" when nothing is
\* selected); the handler clears the combobox before it returns.  The third
\* meal of a day runs finish_day, and the last day's runs the analysis.
next_meal(food) ==
    /\ screen = "food"
    /\ selected_food' = ""
    /\ IF food = ""
       THEN UNCHANGED << screen, day, meal_idx, daily_data, current_day_entry,
                         analysis_results, summary >>
       ELSE LET entry == [current_day_entry EXCEPT !.foods = Append(@, food)] IN
            IF meal_idx + 1 < NumMeals
            THEN /\ current_day_entry' = entry
                 /\ meal_idx' = meal_idx + 1
                 /\ UNCHANGED << screen, day, daily_data, analysis_results, summary >>
            ELSE /\ daily_data' = FinishedDay(entry)
                 /\ current_day_entry' = EmptyEntry
                 /\ meal_idx' = 0
                 /\ IF day < NumDays
                    THEN /\ day' = day + 1
                         /\ UNCHANGED << screen, analysis_results, summary >>
                    ELSE /\ day' = day
                         /\ Analyze(FinishedDay(entry))
    /\ UNCHANGED << storeVars, fs, last_call, foods_dict, allergies_dict, all_issues,
                    user_issues, prediction >>

\* the values the feedback tab's ingredient combobox can hold
IngredientChoices == { "" } \cup { TitleStr(i) : i \in Range(AllIngredients(daily_data)) }

\* the dict submit_feedback builds
FeedbackDict(rating, comments, ts, choice) ==
    [ rating               |-> rating,
      comments             |-> comments,
      timestamp            |-> ts,
      confirmed_ingredient |-> IF choice # "" THEN LowerStr(choice) ELSE "" ]

\* "Submit Feedback".  self.analysis_results keeps its value until the next
\* analysis assigns it; nothing reads it in between, so the model drops it
\* (and the destroyed results frame) here.
submit_feedback(rating, comments, choice, ts) ==
    /\ screen = "results"
    /\ Len(feedback_file.data) < MaxFeedback
    /\ choice \in IngredientChoices
    /\ LET saved == save_feedback(feedback_file, model_adjustments_file, ts,
                                  FeedbackDict(rating, comments, ts, choice),
                                  analysis_results)
       IN  /\ feedback_file' = saved[1]
           /\ model_adjustments_file' = saved[2]
    /\ screen' = "welcome"
    /\ analysis_results' = NoResults
    /\ summary' = NoSummary
    /\ UNCHANGED << fs, last_call, foods_dict, allergies_dict, all_issues, day,
                    meal_idx, daily_data, current_day_entry, user_issues,
                    selected_food, prediction >>

\* "New Analysis" (menu or button)
reset_analysis ==
    /\ screen # "off"
    /\ day' = 1
    /\ meal_idx' = 0
    /\ daily_data' = <<>>
    /\ current_day_entry' = EmptyEntry
    /\ selected_food' = ""
    /\ screen' = "welcome"
    /\ analysis_results' = NoResults
    /\ summary' = NoSummary
    /\ UNCHANGED << storeVars, fs, last_call, foods_dict, allergies_dict, all_issues,
                    user_issues, prediction >>

Next ==
    \/ Start
    \/ Exit
    \/ ask_issues_first
    \/ show_feedback_stats
    \/ \E sel \in SUBSET (1..Len(all_issues)) : save_issues_and_start_meal(sel)
    \/ \E food \in { "" } \cup KeySet(foods_dict) : next_meal(food)
    \/ \E r \in Ratings, c \in Comments, ch \in ComboValues, ts \in Timestamps :
          submit_feedback(r, c, ch, ts)
    \/ reset_analysis

Spec == Init /\ [][Next]_vars

(***************************************************************************)
(* FeedbackSystem driven directly: any caller, any sequence of calls       *)
(***************************************************************************)
InitStore == Init

\* FeedbackSystem()
StoreConstruct ==
    /\ Construct
    /\ last_call' = [op |-> "init"]
    /\ UNCHANGED appVars

\* FeedbackSystem.save_feedback(user_feedback, analysis_results) at time ts
StoreSaveFeedback(ts, user_feedback, results) ==
    /\ fs = "ready"
    /\ Len(feedback_file.data) < MaxLog
    /\ LET saved == save_feedback(feedback_file, model_adjustments_file, ts,
                                  user_feedback, results)
       IN  /\ feedback_file' = saved[1]
           /\ model_adjustments_file' = saved[2]
    /\ last_call' = [op |-> "save_feedback", user_feedback |-> user_feedback,
                     analysis_results |-> results, timestamp |-> ts]
    /\ UNCHANGED << fs, appVars >>

\* FeedbackSystem.get_feedback_stats()
StoreGetFeedbackStats ==
    /\ fs = "ready"
    /\ last_call' = [op |-> "get_feedback_stats", ret |-> get_feedback_stats(feedback_file)]
    /\ UNCHANGED << storeVars, fs, appVars >>

\* FeedbackSystem.get_model_adjustments()
StoreGetModelAdjustments ==
    /\ fs = "ready"
    /\ last_call' = [op |-> "get_model_adjustments",
                     ret |-> get_model_adjustments(model_adjustments_file)]
    /\ UNCHANGED << storeVars, fs, appVars >>

NextStore ==
    \/ StoreConstruct
    \/ \E ts \in Timestamps, call \in StoreCalls :
          StoreSaveFeedback(ts, call[1], call[2])
    \/ StoreGetFeedbackStats
    \/ StoreGetModelAdjustments

SpecStore == InitStore /\ [][NextStore]_vars

(***************************************************************************)
(* FeedbackSystem.save_feedback with writes that can fail.  The two files  *)
(* are written one after the other, each by load, change, seek(0), dump;   *)
(* an exception (or the end of the process) at any of these points ends    *)
(* the call there.                                                         *)
(***************************************************************************)
\* a file whose dump stopped part-way: it no longer parses
CorruptFile == [exists |-> TRUE, corrupt |-> TRUE]

\* json.load succeeds
Readable(f) == f.exists /\ "data" \in DOMAIN f

\* what a dump of `new` over `old` that raises can leave on disk: the bytes
\* written so far all matched the old content (old), the new content stops
\* short (corrupt), or everything was written before the exception (new)
FailedDump(old, new) == { old, CorruptFile, new }

\* the files a call of save_feedback that raises can leave
FailedSaveOutcomes(ff, maf, ts, user_feedback, results) ==
    LET appended == AppendEntry(ff, FeedbackEntry(ts, user_feedback, results))
        confirmed == user_feedback.confirmed_ingredient
    IN  IF ~Readable(ff)
        THEN { << ff, maf >> }
        ELSE { << f, maf >> : f \in FailedDump(ff, appended) }
             \cup ( IF confirmed = "" THEN {}
                    ELSE IF ~Readable(maf) THEN { << appended, maf >> }
                    ELSE { << appended, m >> :
                             m \in FailedDump(maf, improve_model(maf, user_feedback)) } )

\* the store right after FeedbackSystem() created both files
InitFaults ==
    /\ feedback_file = BootstrapFile(AbsentFile, <<>>)
    /\ model_adjustments_file = BootstrapFile(AbsentFile, <<>>)
    /\ fs = "ready"
    /\ last_call = NoCall
    /\ AppOff

\* save_feedback returns normally
FaultsSaveReturns(ts, user_feedback, results) ==
    /\ Readable(feedback_file)
    /\ user_feedback.confirmed_ingredient # "" => Readable(model_adjustments_file)
    /\ Len(feedback_file.data) < MaxLog
    /\ LET saved == save_feedback(feedback_file, model_adjustments_file, ts,
                                  user_feedback, results)
       IN  /\ feedback_file' = saved[1]
           /\ model_adjustments_file' = saved[2]
    /\ last_call' = [op |-> "save_feedback", raised |-> FALSE]
    /\ UNCHANGED << fs, appVars >>

\* save_feedback raises
FaultsSaveRaises(ts, user_feedback, results) ==
    /\ Readable(feedback_file) => Len(feedback_file.data) < MaxLog
    /\ \E out \in FailedSaveOutcomes(feedback_file, model_adjustments_file, ts,
                                      user_feedback, results) :
          /\ feedback_file' = out[1]
          /\ model_adjustments_file' = out[2]
    /\ last_call' = [op |-> "save_feedback", raised |-> TRUE]
    /\ UNCHANGED << fs, appVars >>

NextFaults ==
    \/ \E ts \in Timestamps, call \in StoreCalls :
          FaultsSaveReturns(ts, call[1], call[2])
    \/ \E ts \in Timestamps, call \in StoreCalls :
          FaultsSaveRaises(ts, call[1], call[2])

SpecFaults == InitFaults /\ [][NextFaults]_vars

(***************************************************************************)
(* The analysis and the prediction applied to any diary and any stored     *)
(* adjustments                                                             *)
(***************************************************************************)
InitEngine ==
    /\ feedback_file = [exists |-> TRUE, data |-> <<>>]
    /\ model_adjustments_file \in { [exists |-> TRUE, data |-> a] : a \in EngineAdjustments }
    /\ fs = "ready"
    /\ last_call = NoCall
    /\ foods_dict = load_foods_allergies(EngineFoodTable)
    /\ allergies_dict = load_allergies_diseases(EngineAllergyTable)
    /\ all_issues = LoadedIssues(allergies_dict)
    /\ screen = "food"
    /\ day = 1
    /\ meal_idx = 0
    /\ daily_data \in EngineDiaries(all_issues)
    /\ current_day_entry = EmptyEntry
    /\ user_issues = <<>>
    /\ selected_food = ""
    /\ analysis_results = NoResults
    /\ summary = NoSummary
    /\ prediction = NoPrediction

\* analyze_and_show_results()
EngineAnalyze ==
    /\ screen = "food"
    /\ Analyze(daily_data)
    /\ UNCHANGED << storeVars, fs, last_call, foods_dict, allergies_dict, all_issues,
                    day, meal_idx, daily_data, current_day_entry, user_issues,
                    selected_food, prediction >>

NextEngine == EngineAnalyze

SpecEngine == InitEngine /\ [][NextEngine]_vars

(***************************************************************************)
(* The classifier mode applied to any diary and any training pairs         *)
(***************************************************************************)
InitPredict ==
    /\ feedback_file = [exists |-> TRUE, data |-> <<>>]
    /\ model_adjustments_file = [exists |-> TRUE, data |-> <<>>]
    /\ fs = "ready"
    /\ last_call = NoCall
    /\ foods_dict = load_foods_allergies(EngineFoodTable)
    /\ allergies_dict = load_allergies_diseases(EngineAllergyTable)
    /\ all_issues = LoadedIssues(allergies_dict)
    /\ screen = "food"
    /\ day = 1
    /\ meal_idx = 0
    /\ daily_data \in PredictDiaries(all_issues)
    /\ current_day_entry = EmptyEntry
    /\ user_issues = <<>>
    /\ selected_food = ""
    /\ analysis_results = NoResults
    /\ summary = NoSummary
    /\ prediction = NoPrediction

\* map_foods_to_allergies, analyze_patterns, then predict on the given
\* training pairs
EnginePredict(trainingPairs) ==
    /\ prediction = NoPrediction
    /\ daily_data' = map_foods_to_allergies(daily_data)
    /\ LET patterns == analyze_patterns(map_foods_to_allergies(daily_data)) IN
       \E food \in PredictOutcomes(trainingPairs, patterns.food_counter) :
          prediction' = [path |-> PredictPath(trainingPairs), food |-> food,
                         pairs |-> Len(trainingPairs)]
    /\ UNCHANGED << storeVars, fs, last_call, foods_dict, allergies_dict, all_issues,
                    screen, day, meal_idx, current_day_entry, user_issues,
                    selected_food, analysis_results, summary >>

NextPredict == \E tp \in TrainingPairs : EnginePredict(tp)

SpecPredict == InitPredict /\ [][NextPredict]_vars

(***************************************************************************)
(* Properties of the analysis (checked under SpecEngine)                   *)
(***************************************************************************)
Analysed == screen = "results"

StoredAdjustments == model_adjustments_file.data

\* every name that can hold a score
ScoreNames ==
    AdjKeys \cup UNION { Range(foods_dict[i].val) : i \in 1..Len(foods_dict) }

AllergensOf(food) == DictGet(foods_dict, food, <<>>)

RelatedIssues(a) == Range(DictGet(allergies_dict, a, <<>>))

\* (day, meal, issue position) for every occurrence of a food that lists a
\* and every issue of that day related to a
FoodIssuePairs(dd, a) ==
    { t \in UNION { UNION { { <<d, m, i>> : i \in 1..Len(dd[d].issues) } :
                            m \in 1..Len(dd[d].foods) } : d \in 1..Len(dd) } :
        /\ a \in Range(AllergensOf(dd[t[1]].foods[t[2]]))
        /\ dd[t[1]].issues[t[3]] \in RelatedIssues(a) }

\* the same, once for every position at which the food's allergen list holds a
ListedIssuePairs(dd, a) ==
    { t \in UNION { UNION { UNION { { <<d, m, k, i>> : i \in 1..Len(dd[d].issues) } :
                                    k \in 1..Len(AllergensOf(dd[d].foods[m])) } :
                            m \in 1..Len(dd[d].foods) } : d \in 1..Len(dd) } :
        /\ AllergensOf(dd[t[1]].foods[t[2]])[t[3]] = a
        /\ dd[t[1]].issues[t[4]] \in RelatedIssues(a) }

ScoreIn(map, a) == DictGet(map, a, 0)

\* C1 as stated: every score is the number of (food occurrence, related issue
\* of that day) pairs plus the stored adjustment, and is never below the score
\* computed without adjustments.
C1_Original ==
    Analysed =>
        \A a \in ScoreNames :
            ScoreIn(summary.ingredient_issue_map, a)
                = Cardinality(FoodIssuePairs(daily_data, a)) + ScoreIn(StoredAdjustments, a)

\* C1 amended: a food whose allergen list names a more than once counts once
\* per listing; with that, every score is the number of (food occurrence,
\* listing of a, related issue of that day) triples plus the stored adjustment,
\* only names with a listing or an adjustment hold a score, and no score is
\* below the score computed without adjustments.
C1_Scores ==
    Analysed =>
        /\ \A a \in ScoreNames :
              /\ ScoreIn(summary.ingredient_issue_map, a)
                    = Cardinality(ListedIssuePairs(daily_data, a))
                        + ScoreIn(StoredAdjustments, a)
              /\ ScoreIn(summary.ingredient_issue_map, a)
                    >= ScoreIn(AdjustedScores(daily_data, <<>>), a)
        /\ KeySet(summary.ingredient_issue_map) \subseteq ScoreNames
        /\ analysis_results.ingredient_issue_map = summary.ingredient_issue_map

\* C1 witness: an allergen listed twice by an eaten food scores from the diary
\* and from a stored adjustment
C1_Witness ==
    /\ Analysed
    /\ Cardinality(ListedIssuePairs(daily_data, "gluten")) = 2
    /\ Cardinality(FoodIssuePairs(daily_data, "gluten")) = 1
    /\ ScoreIn(StoredAdjustments, "gluten") = 5
    /\ ScoreIn(summary.ingredient_issue_map, "gluten") = 7

\* the largest value of a score map, 0 for an empty one
LargestScore(map) ==
    IF map = <<>> THEN 0
    ELSE CHOOSE v \in Range(Values(map)) : \A w \in Range(Values(map)) : w <= v

\* C2: the probable-ingredient set is exactly the set of names whose adjusted
\* score equals the largest adjusted score, and is empty when that is not
\* positive; ties are kept.
C2_Probable ==
    Analysed =>
        LET map == summary.ingredient_issue_map
            top == LargestScore(map)
        IN  /\ summary.max_score = top
            /\ Range(summary.probable_ingredients)
                  = { a \in KeySet(map) : ScoreIn(map, a) = top /\ top > 0 }
            /\ Len(summary.probable_ingredients)
                  = Cardinality(Range(summary.probable_ingredients))
            /\ analysis_results.probable_ingredients = summary.probable_ingredients

\* C2 witness: an adjustment of 5 on a name with diary score 0 displaces a name
\* with diary score 1 and no adjustment
C2_Witness ==
    /\ Analysed
    /\ ScoreIn(AdjustedScores(daily_data, <<>>), "dairy") = 1
    /\ ScoreIn(StoredAdjustments, "dairy") = 0
    /\ HasKey(AdjustedScores(daily_data, <<>>), "gluten")
    /\ ScoreIn(AdjustedScores(daily_data, <<>>), "gluten") = 0
    /\ ScoreIn(StoredAdjustments, "gluten") = 5
    /\ summary.probable_ingredients = << "gluten" >>

NoIssuesReported(dd) == \A d \in 1..Len(dd) : dd[d].issues = <<>>

\* C3 as stated: with no issue on any day the largest score is 0 and nothing
\* is probable, whatever adjustments are stored.
C3_Original ==
    (Analysed /\ NoIssuesReported(daily_data)) =>
        summary.max_score = 0 /\ summary.probable_ingredients = <<>>

\* C3 amended: with no issue on any day the largest score is the largest
\* stored adjustment (0 when none is stored) and the probable set is the set
\* of names holding it; so the outcome is "no clear culprit" exactly when no
\* adjustment is stored.
C3_NoIssues ==
    (Analysed /\ NoIssuesReported(daily_data)) =>
        /\ summary.max_score = LargestScore(StoredAdjustments)
        /\ Range(summary.probable_ingredients)
              = { a \in KeySet(StoredAdjustments) :
                    ScoreIn(StoredAdjustments, a) = LargestScore(StoredAdjustments) }
        /\ summary.no_clear_culprit <=> StoredAdjustments = <<>>

\* C3 witness: foods with allergens eaten on days without issues, nothing
\* stored, no culprit
C3_Witness ==
    /\ Analysed
    /\ NoIssuesReported(daily_data)
    /\ Len(daily_data) = 2
    /\ HasKey(summary.ingredient_issue_map, "dairy")
    /\ StoredAdjustments = <<>>
    /\ summary.no_clear_culprit

EatenFoods(dd) == UNION { Range(dd[d].foods) : d \in 1..Len(dd) }

\* the diary without the foods that are no key of foods_dict
KnownOnly(dd) ==
    [ d \in 1..Len(dd) |->
        [ foods  |-> SelectSeq(dd[d].foods, LAMBDA f : HasKey(foods_dict, f)),
          issues |-> dd[d].issues ] ]

\* C4: the culprit-food set is the union, over the probable ingredients, of
\* the eaten foods that carry the ingredient; a food that is no key of
\* foods_dict changes no score and is never a culprit food.
C4_CulpritFoods ==
    Analysed =>
        /\ summary.culprit_foods
              = { f \in EatenFoods(daily_data) :
                    Range(AllergensOf(f)) \cap Range(summary.probable_ingredients) # {} }
        /\ Range(analysis_results.culprit_foods) = summary.culprit_foods
        /\ \A f \in summary.culprit_foods : HasKey(foods_dict, f)
        /\ summary.ingredient_issue_map
              = AdjustedScores(KnownOnly(daily_data), StoredAdjustments)

\* C4 witness: a diary with an unknown food and two culprit foods
C4_Witness ==
    /\ Analysed
    /\ "UnknownDish" \in EatenFoods(daily_data)
    /\ summary.culprit_foods = { "Pizza", "Toast" }
    /\ Len(summary.probable_ingredients) = 1

PositionIn(d, k) == CHOOSE i \in 1..Len(d) : d[i].key = k

\* C5: with a probable ingredient, the alternatives are exactly the foods of
\* foods_dict none of whose allergens is probable, in the order of foods_dict,
\* and the first 10 of them at most are shown.
C5_Alternatives ==
    (Analysed /\ summary.probable_ingredients # <<>>) =>
        LET alts  == summary.alternative_foods
            shown == summary.shown_alternatives
        IN  /\ Range(alts)
                  = { f \in KeySet(foods_dict) :
                        Range(AllergensOf(f)) \cap Range(summary.probable_ingredients) = {} }
            /\ \A i, j \in 1..Len(alts) :
                  i < j => PositionIn(foods_dict, alts[i]) < PositionIn(foods_dict, alts[j])
            /\ Len(shown) = Min2(Len(alts), 10)
            /\ \A i \in 1..Len(shown) : shown[i] = alts[i]
            /\ \A i \in 1..Len(shown) :
                  Range(AllergensOf(shown[i])) \cap Range(summary.probable_ingredients) = {}

\* C5 witness: more than 10 alternatives, some of them never eaten
C5_Witness ==
    /\ Analysed
    /\ summary.probable_ingredients = << "dairy" >>
    /\ Len(summary.alternative_foods) > 10
    /\ Len(summary.shown_alternatives) = 10
    /\ "Salad" \in Range(summary.shown_alternatives)
    /\ "Salad" \notin EatenFoods(daily_data)

\* C13: whenever the analysis reports probable ingredients, each of them is
\* carried by a food eaten in the diary, and so the culprit-food set is not
\* empty, whatever adjustments are stored.
C13_ProbableEaten ==
    (Analysed /\ summary.probable_ingredients # <<>>) =>
        /\ \A a \in Range(summary.probable_ingredients) :
              \E f \in EatenFoods(daily_data) : a \in Range(AllergensOf(f))
        /\ summary.culprit_foods # {}

(***************************************************************************)
(* Properties of FeedbackSystem (checked under SpecStore)                  *)
(***************************************************************************)
Log == feedback_file.data

Adjustments == model_adjustments_file.data

\* a step that is a call of save_feedback
SaveStep == vars' # vars /\ last_call'.op = "save_feedback"

\* C6: the log is append-only: every save_feedback leaves the previous
\* records as they were, in order, and adds one record holding the submitted
\* feedback and the analysis results; no step changes or removes a record.
C6_AppendOnly ==
    [][ /\ feedback_file.exists => feedback_file'.exists
        /\ Len(Log') >= Len(Log)
        /\ SubSeq(Log', 1, Len(Log)) = Log
        /\ IF SaveStep
           THEN /\ Len(Log') = Len(Log) + 1
                /\ Log'[Len(Log')].feedback = last_call'.user_feedback
                /\ Log'[Len(Log')].results = last_call'.analysis_results
                /\ Log'[Len(Log')].timestamp = last_call'.timestamp
           ELSE Log' = Log ]_vars

\* C6 witness: a save_feedback has just added a record behind a different one
C6_Witness ==
    /\ last_call.op = "save_feedback"
    /\ Len(Log) = 3
    /\ Log[2] # Log[3]
    /\ Log[3].feedback = last_call.user_feedback
    /\ Log[3].results # Log[1].results

\* C7: a save_feedback with a confirmed culprit c raises the count of c by
\* exactly 1 (from 0 when absent) and changes no other count; one without a
\* confirmed culprit changes nothing; no step lowers a count or removes a key.
C7_Adjustments ==
    [][ /\ \A k \in KeySet(Adjustments) :
              HasKey(Adjustments', k) /\ ScoreIn(Adjustments', k) >= ScoreIn(Adjustments, k)
        /\ IF SaveStep
           THEN LET c == last_call'.user_feedback.confirmed_ingredient IN
                IF c = ""
                THEN Adjustments' = Adjustments
                ELSE /\ ScoreIn(Adjustments', c) = ScoreIn(Adjustments, c) + 1
                     /\ KeySet(Adjustments') = KeySet(Adjustments) \cup { c }
                     /\ \A k \in KeySet(Adjustments) \ { c } :
                           ScoreIn(Adjustments', k) = ScoreIn(Adjustments, k)
           ELSE Adjustments' = Adjustments ]_vars

\* C7 witness: the same feedback submitted three times has raised the count
\* to 3, beside another key
C7_Witness ==
    /\ Len(Log) = 4
    /\ Log[2] = Log[3] /\ Log[3] = Log[4]
    /\ Log[4].feedback.confirmed_ingredient = "dairy"
    /\ last_call.op = "get_model_adjustments"
    /\ last_call.ret = Adjustments
    /\ Log[1].feedback.confirmed_ingredient = "gluten"
    /\ Adjustments = << [key |-> "gluten", val |-> 1], [key |-> "dairy", val |-> 3] >>

\* the last min(n, 5) records of the log, oldest first
RecentRecords(data) ==
    [ i \in 1..Min2(Len(data), 5) |-> data[Len(data) - Min2(Len(data), 5) + i] ]

\* C8: get_feedback_stats returns the length of the log and its last
\* min(n, 5) records in log order, and leaves the log as it was.
C8_Stats ==
    [][ (vars' # vars /\ last_call'.op = "get_feedback_stats") =>
            /\ feedback_file' = feedback_file
            /\ model_adjustments_file' = model_adjustments_file
            /\ last_call'.ret.total_feedback = Len(Log)
            /\ last_call'.ret.recent_feedback = RecentRecords(Log) ]_vars

\* C8 witness: statistics of a log of more than 5 records
C8_Witness ==
    /\ last_call.op = "get_feedback_stats"
    /\ Len(Log) = 6
    /\ last_call.ret.total_feedback = 6
    /\ Len(last_call.ret.recent_feedback) = 5
    /\ last_call.ret.recent_feedback[1] = Log[2]
    /\ Log[1] # Log[2]

(***************************************************************************)
(* The log and the adjustments together (checked under SpecFaults)         *)
(***************************************************************************)
\* the number of records of the log that confirm c
Confirmations(c) ==
    Cardinality({ i \in 1..Len(Log) : Log[i].feedback.confirmed_ingredient = c })

ConfirmedNames ==
    { Log[i].feedback.confirmed_ingredient : i \in 1..Len(Log) } \ { "" }

\* C12: from an empty store, after any calls of save_feedback, whether they
\* return or raise part-way, the adjustments hold for every name exactly the
\* number of records of the log that confirm it, and no other name (stated
\* for the states in which both files can still be read).
C12_Consistent ==
    (Readable(feedback_file) /\ Readable(model_adjustments_file)) =>
        /\ KeySet(Adjustments) = ConfirmedNames
        /\ \A c \in ConfirmedNames : DictGet(Adjustments, c, 0) = Confirmations(c)

(***************************************************************************)
(* Properties of the application (checked under Spec)                      *)
(***************************************************************************)
\* a day entry as the wizard completes it
CompleteEntry(e) == Len(e.foods) = NumMeals /\ e.issues # <<>>

\* C9: the two documents change only when feedback is submitted from the
\* results of a completed analysis (one record holding those results is
\* added), or when a document that does not exist yet is created empty;
\* construction over existing documents, every wizard step, reset and exit
\* leave both unchanged.
C9_Frame ==
    [][ storeVars' # storeVars =>
          \/ /\ screen = "results" /\ screen' = "welcome"
             /\ Len(daily_data) = NumDays
             /\ \A d \in 1..NumDays : CompleteEntry(daily_data[d])
             /\ Len(Log') = Len(Log) + 1
             /\ SubSeq(Log', 1, Len(Log)) = Log
             /\ Log'[Len(Log')].results = analysis_results
             /\ analysis_results.ingredient_issue_map
                   = AdjustedScores(daily_data, Adjustments)
          \/ /\ screen = "off" /\ screen' = "welcome"
             /\ ~feedback_file.exists /\ ~model_adjustments_file.exists
             /\ feedback_file' = [exists |-> TRUE, data |-> <<>>]
             /\ model_adjustments_file' = [exists |-> TRUE, data |-> <<>>] ]_vars

\* C9 witness: a diary is half entered while both documents hold data
C9_Witness ==
    /\ screen = "food"
    /\ day = 3
    /\ meal_idx = 2
    /\ Len(daily_data) = 2
    /\ Len(Log) = 1
    /\ Adjustments = << [key |-> "gluten", val |-> 1] >>

\* s is t with elements added at the end
IsPrefix(s, t) == Len(s) <= Len(t) /\ SubSeq(t, 1, Len(s)) = s

\* a step of the food screen that stays in the wizard: a meal or a day step
MealStep == screen = "food" /\ screen' \in { "food", "results" }

\* C11: whatever the wizard events, the diary never holds more than 4
\* entries; a meal or day step only adds: the foods of the open day grow by
\* the selected food at the end, a closed day holds the 3 foods entered, in
\* order, with the tracked issues, and the entries already in the diary stay
\* as they are; and the analysis is run (the results screen is entered) only
\* on a diary of exactly 4 entries, each of exactly 3 non-empty food names and
\* the user's non-empty tracked issues.
C11_Diary ==
    [][ /\ Len(daily_data') <= NumDays
        /\ MealStep =>
              /\ IsPrefix(daily_data, daily_data')
              /\ Len(daily_data') <= Len(daily_data) + 1
              /\ user_issues' = user_issues
              /\ Len(daily_data') = Len(daily_data) =>
                    \/ current_day_entry' = current_day_entry
                    \/ /\ IsPrefix(current_day_entry.foods, current_day_entry'.foods)
                       /\ Len(current_day_entry'.foods) = Len(current_day_entry.foods) + 1
              /\ Len(daily_data') = Len(daily_data) + 1 =>
                    /\ IsPrefix(current_day_entry.foods,
                                daily_data'[Len(daily_data')].foods)
                    /\ Len(current_day_entry.foods) = NumMeals - 1
                    /\ current_day_entry'.foods = <<>>
        /\ (screen # "results" /\ screen' = "results") =>
              /\ screen = "food"
              /\ Len(daily_data') = NumDays
              /\ user_issues' # <<>>
              /\ \A d \in 1..NumDays :
                    /\ Len(daily_data'[d].foods) = NumMeals
                    /\ \A m \in 1..NumMeals : daily_data'[d].foods[m] # ""
                    /\ daily_data'[d].issues = user_issues'
              /\ summary'.ingredient_issue_map
                    = AdjustedScores(daily_data', Adjustments) ]_vars

\* C11 witness: a second diary, entered after feedback on a first one, is
\* analysed; its days hold different foods in different orders
C11_Witness ==
    /\ screen = "results"
    /\ Len(Log) = 1
    /\ Len(daily_data) = NumDays
    /\ daily_data[1].foods = << "Pizza", "Salad", "Pizza" >>
    /\ daily_data[4].foods = << "Salad", "Salad", "Pizza" >>
    /\ daily_data[4].issues = << "bloating" >>

(***************************************************************************)
(* Properties of the classifier mode (checked under SpecPredict)           *)
(***************************************************************************)
Predicted == prediction.path # "none"

\* every food of the diary, in the order eaten
FoodsInOrder(dd) == ConcatAll([ d \in 1..Len(dd) |-> dd[d].foods ])

TimesEaten(dd, f) ==
    Cardinality({ i \in 1..Len(FoodsInOrder(dd)) : FoodsInOrder(dd)[i] = f })

FirstEaten(dd, f) ==
    CHOOSE i \in 1..Len(FoodsInOrder(dd)) :
        /\ FoodsInOrder(dd)[i] = f
        /\ \A j \in 1..(i - 1) : FoodsInOrder(dd)[j] # f

\* C10: with fewer than 2 training pairs the prediction takes the fallback
\* path and is the food eaten most often in the diary, the first eaten among
\* equals, or none when the diary holds no food; the classifier path is taken
\* only with 2 pairs or more.
C10_Fallback ==
    Predicted =>
        /\ prediction.path = "classifier" <=> prediction.pairs >= 2
        /\ prediction.pairs < 2 =>
              /\ prediction.path = "fallback"
              /\ IF FoodsInOrder(daily_data) = <<>>
                 THEN prediction.food = "None"
                 ELSE /\ prediction.food \in Range(FoodsInOrder(daily_data))
                      /\ \A g \in Range(FoodsInOrder(daily_data)) :
                            \/ TimesEaten(daily_data, g) < TimesEaten(daily_data, prediction.food)
                            \/ /\ TimesEaten(daily_data, g) = TimesEaten(daily_data, prediction.food)
                               /\ FirstEaten(daily_data, prediction.food)
                                     <= FirstEaten(daily_data, g)

\* C10 witness: one training pair, and the food eaten most often is not the
\* first one eaten
C10_Witness ==
    /\ Predicted
    /\ prediction.pairs = 1
    /\ prediction.path = "fallback"
    /\ prediction.food = "Pizza"
    /\ FoodsInOrder(daily_data) = << "Toast", "Pizza", "Pizza" >>

====
